---- MODULE Spec2Model ----
(***************************************************************************)
(* A state-machine model of the bookstore REST API                         *)
(* (src/bookstore_app/views.py): the Author, Category, Book, User and      *)
(* Token tables, and the request handlers.  A handler that runs several    *)
(* database statements is one action per statement, so that the requests   *)
(* of two workers interleave between statements; a handler that runs one   *)
(* statement is one action.                                                *)
(***************************************************************************)
EXTENDS Integers, Sequences, FiniteSets, TLC

VARIABLES
    users,          \* User table: sequence of rows, a row's id is its index
    tokens,         \* Token table: set of rows [key, user]
    workers,        \* per request-worker: position inside a split handler
    issued,         \* log: user id -> the token strings logins returned, in order
    authors,        \* Author table: id -> [name]
    categories,     \* Category table: id -> [name]
    books,          \* Book table: id -> [title, description, author, category]
    nextAuthorId,   \* auto-increment counters of the three catalog tables
    nextCategoryId,
    nextBookId,
    onDelete,       \* schema: related field of Book -> the on_delete rule of its key
    deleted,        \* log: ids a DELETE of a Book removed and no create has stored since
    resp            \* the response the latest step sent, NoResp if it sent none

vars == <<users, tokens, workers, issued, authors, categories, books,
          nextAuthorId, nextCategoryId, nextBookId, onDelete, deleted, resp>>

authVars == <<users, tokens, workers, issued>>
catalogVars == <<authors, categories, books, nextAuthorId, nextCategoryId,
                 nextBookId, onDelete, deleted>>

(***************************************************************************)
(* Bounds                                                                  *)
(***************************************************************************)
MaxUsers == 2
MaxLogins == 2
Procs == {"w1", "w2", "w3"}
\* the workers of the specifications that interleave two requests
TwoProcs == {"w1", "w2"}
Usernames == {"ann", "bob"}
Passwords == {"pw1", "pw2"}
Emails == {"a@x.org"}
BadEmails == {"not-an-email"}
Keys == {"k1", "k2"}
Blank == ""

NoResp == [op |-> "none", status |-> 0, body |-> [none |-> TRUE]]
Idle == [pc |-> "idle"]
EmptyTable == [i \in {} |-> i]

(***************************************************************************)
(* Users: registration                                                     *)
(***************************************************************************)
UserIds == 1..Len(users)

\* The framework stores a salted hash of the password, never the text.
make_password(p) == <<"pbkdf2", p>>
check_password(p, h) == p # Blank /\ make_password(p) = h

UsernameTaken(name) == \E u \in UserIds : users[u].username = name

\* UserSerializer.is_valid: the field-level errors, field -> error code
\* (presence, e-mail format, uniqueness of the username).
UserSerializerErrors(data) ==
    LET code(f) ==
            CASE f = "username" ->
                    IF data.username = Blank THEN "blank"
                    ELSE IF UsernameTaken(data.username) THEN "unique" ELSE "ok"
              [] f = "email" -> IF data.email \in BadEmails THEN "invalid" ELSE "ok"
              [] f = "password" -> IF data.password = Blank THEN "blank" ELSE "ok"
    IN [f \in {g \in {"username", "email", "password"} : code(g) # "ok"} |-> code(f)]

RegistrationData ==
    [username : Usernames \cup {Blank},
     email : Emails \cup BadEmails,
     password : {"pw1", Blank}]

InFlightRegistrations == Cardinality({w \in Procs : workers[w].pc = "reg_save"})

\* A registration that saves without validating.
UserRegistrationValidateSkipped(w, data) ==
    /\ workers[w].pc = "idle"
    /\ Len(users) + InFlightRegistrations < MaxUsers
    /\ workers' = [workers EXCEPT ![w] = [pc |-> "reg_save", data |-> data]]
    /\ resp' = NoResp
    /\ UNCHANGED <<users, tokens, issued>>
    /\ UNCHANGED catalogVars

\* UserRegistrationView.create, up to serializer.is_valid(raise_exception=True):
\* a failed validation answers 400 with the field errors and ends the request.
UserRegistrationValidate(w, data) ==
    /\ workers[w].pc = "idle"
    /\ Len(users) + InFlightRegistrations < MaxUsers
    /\ LET errors == UserSerializerErrors(data) IN
       IF DOMAIN errors # {}
       THEN /\ resp' = [op |-> "register", status |-> 400,
                        body |-> [errors |-> errors]]
            /\ UNCHANGED workers
       ELSE /\ workers' = [workers EXCEPT ![w] = [pc |-> "reg_save", data |-> data]]
            /\ resp' = NoResp
    /\ UNCHANGED <<users, tokens, issued>>
    /\ UNCHANGED catalogVars

\* UserRegistrationView.create, serializer.save() and the 201 response.  The
\* INSERT is refused by the unique index on username when a concurrent
\* registration took the name after this request was validated.
UserRegistrationSave(w) ==
    /\ workers[w].pc = "reg_save"
    /\ LET data == workers[w].data IN
       IF UsernameTaken(data.username)
       THEN /\ resp' = [op |-> "register", status |-> 500,
                        body |-> [error |-> "IntegrityError"]]
            /\ UNCHANGED users
       ELSE /\ users' = Append(users, [username |-> data.username,
                                       email |-> data.email,
                                       password |-> make_password(data.password)])
            /\ resp' = [op |-> "register", status |-> 201,
                        body |-> [user_id |-> Len(users) + 1,
                                  username |-> data.username]]
    /\ workers' = [workers EXCEPT ![w] = Idle]
    /\ UNCHANGED <<tokens, issued>>
    /\ UNCHANGED catalogVars

(***************************************************************************)
(* Users: login                                                            *)
(***************************************************************************)
LoginData == [username : Usernames \cup {Blank}, password : Passwords \cup {Blank}]

\* AuthTokenSerializer: authenticate(username, password)
Authenticate(data) ==
    {u \in UserIds : /\ users[u].username = data.username
                     /\ check_password(data.password, users[u].password)}

CredentialError == [non_field_errors |-> "Unable to log in with provided credentials."]

BlankFields(data) ==
    {f \in {"username"} : data.username = Blank}
    \cup {f \in {"password"} : data.password = Blank}

\* serializer.errors of the login serializer
LoginErrors(data) ==
    IF BlankFields(data) # {} THEN [errors |-> [f \in BlankFields(data) |-> "blank"]]
    ELSE CredentialError

TokensOf(u) == {t \in tokens : t.user = u}

InFlightLogins(u) ==
    Cardinality({w \in Procs : workers[w].pc \in {"login_get", "login_create"}
                               /\ workers[w].user = u})

\* the logins of user u answered or in flight stay within the model's bound
LoginAllowed(u) == Len(issued[u]) + InFlightLogins(u) < MaxLogins

LoginResponse(u, key) ==
    [op |-> "login", status |-> 200,
     body |-> [user_id |-> u, username |-> users[u].username,
               email |-> users[u].email, token |-> key]]

\* A login that looks the user up by username and never checks the password.
UserLoginValidateNoPassword(w, data) ==
    /\ workers[w].pc = "idle"
    /\ LET found == {u \in UserIds : users[u].username = data.username} IN
       IF found = {}
       THEN /\ resp' = [op |-> "login", status |-> 400, body |-> LoginErrors(data)]
            /\ UNCHANGED workers
       ELSE /\ \E u \in found :
                 /\ LoginAllowed(u)
                 /\ workers' = [workers EXCEPT ![w] = [pc |-> "login_get", user |-> u]]
            /\ resp' = NoResp
    /\ UNCHANGED <<users, tokens, issued>>
    /\ UNCHANGED catalogVars

\* UserLoginView.post: serializer.is_valid(), the credential check.  Invalid
\* credentials are answered 400 with serializer.errors; valid ones go on to
\* Token.objects.get_or_create.
UserLoginValidate(w, data) ==
    /\ workers[w].pc = "idle"
    /\ LET found == IF BlankFields(data) # {} THEN {} ELSE Authenticate(data) IN
       IF found = {}
       THEN /\ resp' = [op |-> "login", status |-> 400, body |-> LoginErrors(data)]
            /\ UNCHANGED workers
       ELSE /\ \E u \in found :
                 /\ LoginAllowed(u)
                 /\ workers' = [workers EXCEPT ![w] = [pc |-> "login_get", user |-> u]]
            /\ resp' = NoResp
    /\ UNCHANGED <<users, tokens, issued>>
    /\ UNCHANGED catalogVars

\* Token.objects.get_or_create(user=user), the SELECT: an existing token is
\* returned as it is.
TokenGet(w) ==
    /\ workers[w].pc = "login_get"
    /\ LET u == workers[w].user IN
       IF TokensOf(u) # {}
       THEN /\ \E t \in TokensOf(u) :
                 /\ resp' = LoginResponse(u, t.key)
                 /\ issued' = [issued EXCEPT ![u] = Append(@, t.key)]
            /\ workers' = [workers EXCEPT ![w] = Idle]
       ELSE /\ workers' = [workers EXCEPT ![w] = [pc |-> "login_create", user |-> u]]
            /\ resp' = NoResp
            /\ UNCHANGED issued
    /\ UNCHANGED <<users, tokens>>
    /\ UNCHANGED catalogVars

\* A login that replaces the user's token by a fresh one.
TokenCreateRotating(w, key) ==
    /\ workers[w].pc = "login_create"
    /\ LET u == workers[w].user IN
       IF \E t \in tokens : t.key = key /\ t.user # u
       THEN /\ resp' = [op |-> "login", status |-> 500,
                        body |-> [error |-> "IntegrityError"]]
            /\ UNCHANGED <<tokens, issued>>
       ELSE /\ tokens' = (tokens \ TokensOf(u)) \cup {[key |-> key, user |-> u]}
            /\ resp' = LoginResponse(u, key)
            /\ issued' = [issued EXCEPT ![u] = Append(@, key)]
    /\ workers' = [workers EXCEPT ![w] = Idle]
    /\ UNCHANGED users
    /\ UNCHANGED catalogVars

\* A login that inserts a token without looking for the user's own.
TokenCreateUnchecked(w, key) ==
    /\ workers[w].pc = "login_create"
    /\ LET u == workers[w].user IN
       IF \E t \in tokens : t.key = key
       THEN /\ resp' = [op |-> "login", status |-> 500,
                        body |-> [error |-> "IntegrityError"]]
            /\ UNCHANGED <<tokens, issued>>
       ELSE /\ tokens' = tokens \cup {[key |-> key, user |-> u]}
            /\ resp' = LoginResponse(u, key)
            /\ issued' = [issued EXCEPT ![u] = Append(@, key)]
    /\ workers' = [workers EXCEPT ![w] = Idle]
    /\ UNCHANGED users
    /\ UNCHANGED catalogVars

\* Token.objects.get_or_create(user=user), the INSERT of a token with a freshly
\* generated key, and the response.  The one-to-one index on user refuses the
\* row when a concurrent login created the user's token first; get_or_create
\* then returns that token.  A key that is already another token's primary key
\* is refused too, and the request fails.
TokenCreate(w, key) ==
    /\ workers[w].pc = "login_create"
    /\ LET u == workers[w].user IN
       IF TokensOf(u) # {}
       THEN /\ \E t \in TokensOf(u) :
                 /\ resp' = LoginResponse(u, t.key)
                 /\ issued' = [issued EXCEPT ![u] = Append(@, t.key)]
            /\ UNCHANGED tokens
       ELSE IF \E t \in tokens : t.key = key
       THEN /\ resp' = [op |-> "login", status |-> 500,
                        body |-> [error |-> "IntegrityError"]]
            /\ UNCHANGED <<tokens, issued>>
       ELSE /\ tokens' = tokens \cup {[key |-> key, user |-> u]}
            /\ resp' = LoginResponse(u, key)
            /\ issued' = [issued EXCEPT ![u] = Append(@, key)]
    /\ workers' = [workers EXCEPT ![w] = Idle]
    /\ UNCHANGED users
    /\ UNCHANGED catalogVars

(***************************************************************************)
(* Text: a string is a tuple of characters, a character is a one-element   *)
(* string.  Characters TLA+ cannot write are named by their Python escape: *)
(* "\\0" is NUL, "\\v" the vertical tab, "\\x85" NEL, "\\u0660" the        *)
(* Arabic-Indic digit zero, and so on.                                     *)
(***************************************************************************)
UpperCase == <<"A","B","C","D","E","F","G","H","I","J","K","L","M",
               "N","O","P","Q","R","S","T","U","V","W","X","Y","Z">>
LowerCase == <<"a","b","c","d","e","f","g","h","i","j","k","l","m",
               "n","o","p","q","r","s","t","u","v","w","x","y","z">>
Digits == <<"0","1","2","3","4","5","6","7","8","9">>

\* the decimal digits outside ASCII that the model's alphabet holds
ArabicIndicDigits == <<"\\u0660","\\u0661","\\u0662","\\u0663","\\u0664",
                       "\\u0665","\\u0666","\\u0667","\\u0668","\\u0669">>

\* the characters str.isspace() holds for: what str.split(), str.strip() and
\* int() treat as whitespace
Whitespace ==
    {" ", "\t", "\n", "\\v", "\f", "\r", "\\x1c", "\\x1d", "\\x1e", "\\x1f",
     "\\x85", "\\xa0", "\\u1680", "\\u2000", "\\u2001", "\\u2002", "\\u2003",
     "\\u2004", "\\u2005", "\\u2006", "\\u2007", "\\u2008", "\\u2009", "\\u200a",
     "\\u2028", "\\u2029", "\\u202f", "\\u205f", "\\u3000"}

\* the characters of the model's strings, in code point order
Alphabet ==
    <<"\\0", "\t", "\n", "\\v", "\f", "\r", "\\x1c", "\\x1d", "\\x1e", "\\x1f",
      " ", "+", ",", "-">>
    \o Digits \o UpperCase \o <<"_">> \o LowerCase \o <<"\\x85", "\\xa0">>
    \o ArabicIndicDigits
    \o <<"\\u1680", "\\u2000", "\\u2001", "\\u2002", "\\u2003", "\\u2004",
         "\\u2005", "\\u2006", "\\u2007", "\\u2008", "\\u2009", "\\u200a",
         "\\u2028", "\\u2029", "\\u202f", "\\u205f", "\\u3000">>

Min(a, b) == IF a < b THEN a ELSE b
Max(a, b) == IF a > b THEN a ELSE b

\* str.lower() of the upper case letters
LowerOf == [c \in {UpperCase[i] : i \in 1..Len(UpperCase)} |->
               LowerCase[CHOOSE i \in 1..Len(UpperCase) : UpperCase[i] = c]]

\* str.lower() of one character
LowerChar(c) == IF c \in DOMAIN LowerOf THEN LowerOf[c] ELSE c

Lower(text) == [i \in 1..Len(text) |-> LowerChar(text[i])]

\* term in text
Contains(text, term) ==
    \E i \in 0..(Len(text) - Len(term)) : SubSeq(text, i + 1, i + Len(term)) = term

\* the database's icontains lookup
IContains(text, term) == Contains(Lower(text), Lower(term))

\* the position of each character in the alphabet
RankOf == [c \in {Alphabet[i] : i \in 1..Len(Alphabet)} |->
              CHOOSE i \in 1..Len(Alphabet) : Alphabet[i] = c]

Rank(c) == RankOf[c]

\* a < b for two strings: the database's comparison under a binary collation
TextLess(a, b) ==
    \E k \in 1..(Min(Len(a), Len(b)) + 1) :
        /\ \A j \in 1..(k - 1) : a[j] = b[j]
        /\ IF k > Len(a) THEN k <= Len(b)
           ELSE IF k > Len(b) THEN FALSE
           ELSE Rank(a[k]) < Rank(b[k])

\* str.replace(old, new) for a one-character old
ReplaceChar(text, old, new) ==
    [i \in 1..Len(text) |-> IF text[i] = old THEN new ELSE text[i]]

RemoveChar(text, c) == SelectSeq(text, LAMBDA x : x # c)

\* str.split(): the maximal runs of non-whitespace characters
RECURSIVE SplitFrom(_, _, _)
SplitFrom(text, i, word) ==
    IF i > Len(text)
    THEN IF word = <<>> THEN <<>> ELSE <<word>>
    ELSE IF text[i] \in Whitespace
    THEN IF word = <<>> THEN SplitFrom(text, i + 1, <<>>)
         ELSE <<word>> \o SplitFrom(text, i + 1, <<>>)
    ELSE SplitFrom(text, i + 1, Append(word, text[i]))

Split(text) == SplitFrom(text, 1, <<>>)

\* str.split(sep) for a one-character sep: the pieces between the separators,
\* empty ones included
RECURSIVE SplitOnFrom(_, _, _, _)
SplitOnFrom(text, sep, i, piece) ==
    IF i > Len(text) THEN <<piece>>
    ELSE IF text[i] = sep THEN <<piece>> \o SplitOnFrom(text, sep, i + 1, <<>>)
    ELSE SplitOnFrom(text, sep, i + 1, Append(piece, text[i]))

SplitOn(text, sep) == SplitOnFrom(text, sep, 1, <<>>)

\* text without its leading and trailing characters of chars
StripChars(text, chars) ==
    LET kept == {i \in 1..Len(text) : text[i] \notin chars} IN
    IF kept = {} THEN <<>>
    ELSE SubSeq(text, CHOOSE i \in kept : \A j \in kept : i <= j,
                      CHOOSE i \in kept : \A j \in kept : i >= j)

\* str.strip(): text without its leading and trailing whitespace
Strip(text) == StripChars(text, Whitespace)

\* the whitespace int() skips around a number: the ASCII whitespace, and the
\* whitespace outside ASCII; not the separators U+001C to U+001F
IntWhitespace == Whitespace \ {"\\x1c", "\\x1d", "\\x1e", "\\x1f"}

IsDigit(c) ==
    \E i \in 1..Len(Digits) : Digits[i] = c \/ ArabicIndicDigits[i] = c

DigitValue(c) ==
    (CHOOSE i \in 1..Len(Digits) : Digits[i] = c \/ ArabicIndicDigits[i] = c) - 1

RECURSIVE DigitsValue(_)
DigitsValue(ds) ==
    IF ds = <<>> THEN 0
    ELSE 10 * DigitsValue(SubSeq(ds, 1, Len(ds) - 1)) + DigitValue(ds[Len(ds)])

\* int(text): [ok, value]; ok is FALSE where int() raises ValueError.  int()
\* skips the whitespace around the number, takes one sign, and takes digits
\* with single underscores between them.
ParseInt(text) ==
    LET s == StripChars(text, IntWhitespace)
        signed == s # <<>> /\ s[1] \in {"-", "+"}
        body == IF signed THEN Tail(s) ELSE s
        wellFormed ==
            /\ body # <<>>
            /\ \A i \in 1..Len(body) :
                  \/ IsDigit(body[i])
                  \/ /\ body[i] = "_"
                     /\ i > 1 /\ i < Len(body)
                     /\ IsDigit(body[i - 1]) /\ IsDigit(body[i + 1])
        magnitude == DigitsValue(SelectSeq(body, IsDigit))
    IN IF ~wellFormed THEN [ok |-> FALSE, value |-> 0]
       ELSE [ok |-> TRUE,
             value |-> IF signed /\ s[1] = "-" THEN 0 - magnitude ELSE magnitude]

(***************************************************************************)
(* Authentication and permissions                                          *)
(***************************************************************************)
NoCred == "no-credentials"
Creds == {NoCred} \cup Keys

\* Token authentication of the request header: "anonymous" without a header,
\* "user" for the key of a stored token, "failed" for any other key.
AuthenticateRequest(cred) ==
    IF cred = NoCred THEN "anonymous"
    ELSE IF \E t \in tokens : t.key = cred THEN "user"
    ELSE "failed"

IsAuthenticated == "IsAuthenticated"
AllowAny == "AllowAny"

\* permission_classes of BookViewSet
BookViewSetPermission == IsAuthenticated

\* permission_classes of a view that declares none
DefaultPermission == AllowAny

\* APIView.initial: authentication, then the permission check
Refused(cred, permission) ==
    \/ AuthenticateRequest(cred) = "failed"
    \/ permission = IsAuthenticated /\ AuthenticateRequest(cred) # "user"

RefusedBody(cred) ==
    IF AuthenticateRequest(cred) = "failed" THEN [detail |-> "Invalid token."]
    ELSE [detail |-> "Authentication credentials were not provided."]

RefusedResponse(op, cred) == [op |-> op, status |-> 401, body |-> RefusedBody(cred)]

NotFound(op, id) == [op |-> op, status |-> 404, id |-> id, body |-> [detail |-> "Not found."]]

BadRequest(op, errors) == [op |-> op, status |-> 400, body |-> [errors |-> errors]]

\* an exception of the store that no handler catches: the framework answers 500
ServerError(op, error) == [op |-> op, status |-> 500, body |-> [error |-> error]]

NoContent(op, id) == [op |-> op, status |-> 204, id |-> id, body |-> [none |-> TRUE]]

\* worker w leaves its request
Done(w) == workers' = [workers EXCEPT ![w] = Idle]

\* worker w goes on to the next statement of its request, without a response
Goto(w, position) ==
    /\ workers' = [workers EXCEPT ![w] = position]
    /\ resp' = NoResp

userVars == <<users, tokens, issued>>

Restrict(f, S) == [x \in S |-> f[x]]

Remove(table, ids) == [i \in DOMAIN table \ ids |-> table[i]]

(***************************************************************************)
(* Authors and categories.  A handler takes one step per database          *)
(* statement: no view opens a transaction around its statements, so the    *)
(* statements of concurrent requests interleave.  The SELECT of the token  *)
(* that authenticates a request is taken with the request's first          *)
(* statement: no catalog handler writes the Token table.                   *)
(***************************************************************************)
\* the ids the Author and Category tables hand out in the model, and the
\* number of ids the Book table hands out
AuthorIds == {1}
CategoryIds == {1}
MaxBookId == 2

Ann == <<"A","n","n">>
Bob == <<"B","o","b">>
Fic == <<"F","i","c">>
Sci == <<"S","c","i">>

BooksOfAuthor(a) == {b \in DOMAIN books : books[b].author = a}
BooksOfCategory(c) == {b \in DOMAIN books : books[b].category = c}

\* AuthorSerializer.is_valid and CategorySerializer.is_valid: the field-level
\* errors, field -> error code.  The name may be absent only in a partial
\* update, and may not be blank.
NameSerializerErrors(data, partial) ==
    LET code == IF "name" \notin DOMAIN data THEN (IF partial THEN "ok" ELSE "required")
                ELSE IF data["name"] = <<>> THEN "blank" ELSE "ok"
    IN [f \in {g \in {"name"} : code # "ok"} |-> code]

\* on_delete of Book.author and of Book.category: what the store does with
\* the Books of a deleted Author or Category, it deletes them too or it
\* refuses the deletion
OnDelete == {"CASCADE", "PROTECT"}

\* AuthorViewSet.create (CreateModelMixin.create): is_valid, then one INSERT
AuthorViewSetCreate(cred, data) ==
    /\ nextAuthorId \in AuthorIds
    /\ IF Refused(cred, DefaultPermission)
       THEN /\ resp' = RefusedResponse("author_create", cred)
            /\ UNCHANGED <<authors, nextAuthorId>>
       ELSE IF DOMAIN NameSerializerErrors(data, FALSE) # {}
       THEN /\ resp' = BadRequest("author_create", NameSerializerErrors(data, FALSE))
            /\ UNCHANGED <<authors, nextAuthorId>>
       ELSE /\ authors' = (nextAuthorId :> [name |-> data["name"]]) @@ authors
            /\ nextAuthorId' = nextAuthorId + 1
            /\ resp' = [op |-> "author_create", status |-> 201,
                        body |-> [id |-> nextAuthorId, name |-> data["name"]]]
    /\ UNCHANGED <<onDelete, categories, books, nextCategoryId, nextBookId, deleted, workers>>
    /\ UNCHANGED userVars

\* AuthorViewSet.list (ListModelMixin.list) and AuthorViewSet.retrieve
\* (RetrieveModelMixin.retrieve): one SELECT each
AuthorViewSetList(cred) ==
    /\ resp' = IF Refused(cred, DefaultPermission) THEN RefusedResponse("author_list", cred)
               ELSE [op |-> "author_list", status |-> 200, body |-> [results |-> authors]]
    /\ UNCHANGED catalogVars
    /\ UNCHANGED authVars

AuthorViewSetRetrieve(cred, id) ==
    /\ resp' = IF Refused(cred, DefaultPermission) THEN RefusedResponse("author_retrieve", cred)
               ELSE IF id \notin DOMAIN authors THEN NotFound("author_retrieve", id)
               ELSE [op |-> "author_retrieve", status |-> 200, id |-> id,
                     body |-> [id |-> id] @@ authors[id]]
    /\ UNCHANGED catalogVars
    /\ UNCHANGED authVars

\* AuthorViewSet.update and partial_update (UpdateModelMixin.update), up to
\* serializer.save(): get_object (404), is_valid (400)
AuthorViewSetUpdate(w, cred, id, data, partial) ==
    /\ workers[w].pc = "idle"
    /\ IF Refused(cred, DefaultPermission)
       THEN resp' = RefusedResponse("author_update", cred) /\ UNCHANGED workers
       ELSE IF id \notin DOMAIN authors
       THEN resp' = NotFound("author_update", id) /\ UNCHANGED workers
       ELSE IF DOMAIN NameSerializerErrors(data, partial) # {}
       THEN /\ resp' = BadRequest("author_update", NameSerializerErrors(data, partial))
            /\ UNCHANGED workers
       ELSE /\ Goto(w, [pc |-> "author_save", id |-> id,
                        row |-> Restrict(data, DOMAIN data \cap {"name"}) @@ authors[id]])
    /\ UNCHANGED catalogVars
    /\ UNCHANGED userVars

\* AuthorViewSet.update, serializer.save(): the UPDATE of Model.save(), and the
\* 200 response when it matched the row; when it matched no row, Model.save()
\* goes on to an INSERT
AuthorSave(w) ==
    /\ workers[w].pc = "author_save"
    /\ IF workers[w].id \in DOMAIN authors
       THEN /\ authors' = [authors EXCEPT ![workers[w].id] = workers[w].row]
            /\ resp' = [op |-> "author_update", status |-> 200,
                        body |-> [id |-> workers[w].id] @@ workers[w].row]
            /\ Done(w)
       ELSE /\ Goto(w, [workers[w] EXCEPT !.pc = "author_save_insert"])
            /\ UNCHANGED authors
    /\ UNCHANGED <<onDelete, categories, books, nextAuthorId, nextCategoryId, nextBookId,
                   deleted>>
    /\ UNCHANGED userVars

\* AuthorViewSet.update, serializer.save(): the INSERT of Model.save() under
\* the id of the instance, and the 200 response.  The store refuses the row
\* when the id is stored again.
AuthorSaveInsert(w) ==
    /\ workers[w].pc = "author_save_insert"
    /\ IF workers[w].id \in DOMAIN authors
       THEN /\ resp' = ServerError("author_update", "IntegrityError")
            /\ UNCHANGED authors
       ELSE /\ authors' = (workers[w].id :> workers[w].row) @@ authors
            /\ resp' = [op |-> "author_update", status |-> 200,
                        body |-> [id |-> workers[w].id] @@ workers[w].row]
    /\ Done(w)
    /\ UNCHANGED <<onDelete, categories, books, nextAuthorId, nextCategoryId, nextBookId,
                   deleted>>
    /\ UNCHANGED userVars

\* AuthorViewSet.destroy (DestroyModelMixin.destroy), get_object.  Under
\* CASCADE the collector of instance.delete() runs no query of its own: it
\* leaves the Books to the DELETE.
AuthorViewSetDestroy(w, cred, id) ==
    /\ workers[w].pc = "idle"
    /\ IF Refused(cred, DefaultPermission)
       THEN resp' = RefusedResponse("author_destroy", cred) /\ UNCHANGED workers
       ELSE IF id \notin DOMAIN authors
       THEN resp' = NotFound("author_destroy", id) /\ UNCHANGED workers
       ELSE Goto(w, [pc |-> IF onDelete["author"] = "PROTECT" THEN "author_collect"
                            ELSE "author_delete",
                     id |-> id])
    /\ UNCHANGED catalogVars
    /\ UNCHANGED userVars

\* AuthorViewSet.destroy, instance.delete() under PROTECT: the collector's
\* SELECT of the Books that reference the Author, and ProtectedError when
\* there is one
AuthorCollect(w) ==
    /\ workers[w].pc = "author_collect"
    /\ IF BooksOfAuthor(workers[w].id) # {}
       THEN resp' = ServerError("author_destroy", "ProtectedError") /\ Done(w)
       ELSE Goto(w, [pc |-> "author_delete", id |-> workers[w].id])
    /\ UNCHANGED catalogVars
    /\ UNCHANGED userVars

\* AuthorViewSet.destroy, instance.delete(), and the 204 response.  Under
\* CASCADE one transaction deletes every Book that references the Author
\* and then the row.  Under PROTECT the row alone is deleted, and the store
\* refuses the DELETE while a Book references it.
AuthorDelete(w) ==
    /\ workers[w].pc = "author_delete"
    /\ IF onDelete["author"] = "CASCADE"
       THEN /\ books' = Remove(books, BooksOfAuthor(workers[w].id))
            /\ authors' = Remove(authors, {workers[w].id})
            /\ resp' = NoContent("author_destroy", workers[w].id)
       ELSE IF BooksOfAuthor(workers[w].id) # {}
       THEN /\ resp' = ServerError("author_destroy", "IntegrityError")
            /\ UNCHANGED <<authors, books>>
       ELSE /\ authors' = Remove(authors, {workers[w].id})
            /\ resp' = NoContent("author_destroy", workers[w].id)
            /\ UNCHANGED books
    /\ Done(w)
    /\ UNCHANGED <<onDelete, categories, nextAuthorId, nextCategoryId, nextBookId, deleted>>
    /\ UNCHANGED userVars

\* CategoryViewSet.create (CreateModelMixin.create): is_valid, then one INSERT
CategoryViewSetCreate(cred, data) ==
    /\ nextCategoryId \in CategoryIds
    /\ IF Refused(cred, DefaultPermission)
       THEN /\ resp' = RefusedResponse("category_create", cred)
            /\ UNCHANGED <<categories, nextCategoryId>>
       ELSE IF DOMAIN NameSerializerErrors(data, FALSE) # {}
       THEN /\ resp' = BadRequest("category_create", NameSerializerErrors(data, FALSE))
            /\ UNCHANGED <<categories, nextCategoryId>>
       ELSE /\ categories' = (nextCategoryId :> [name |-> data["name"]]) @@ categories
            /\ nextCategoryId' = nextCategoryId + 1
            /\ resp' = [op |-> "category_create", status |-> 201,
                        body |-> [id |-> nextCategoryId, name |-> data["name"]]]
    /\ UNCHANGED <<onDelete, authors, books, nextAuthorId, nextBookId, deleted, workers>>
    /\ UNCHANGED userVars

\* CategoryViewSet.list (ListModelMixin.list) and CategoryViewSet.retrieve
\* (RetrieveModelMixin.retrieve): one SELECT each
CategoryViewSetList(cred) ==
    /\ resp' = IF Refused(cred, DefaultPermission) THEN RefusedResponse("category_list", cred)
               ELSE [op |-> "category_list", status |-> 200, body |-> [results |-> categories]]
    /\ UNCHANGED catalogVars
    /\ UNCHANGED authVars

CategoryViewSetRetrieve(cred, id) ==
    /\ resp' = IF Refused(cred, DefaultPermission) THEN RefusedResponse("category_retrieve", cred)
               ELSE IF id \notin DOMAIN categories THEN NotFound("category_retrieve", id)
               ELSE [op |-> "category_retrieve", status |-> 200, id |-> id,
                     body |-> [id |-> id] @@ categories[id]]
    /\ UNCHANGED catalogVars
    /\ UNCHANGED authVars

\* CategoryViewSet.update and partial_update (UpdateModelMixin.update), up to
\* serializer.save(): get_object (404), is_valid (400)
CategoryViewSetUpdate(w, cred, id, data, partial) ==
    /\ workers[w].pc = "idle"
    /\ IF Refused(cred, DefaultPermission)
       THEN resp' = RefusedResponse("category_update", cred) /\ UNCHANGED workers
       ELSE IF id \notin DOMAIN categories
       THEN resp' = NotFound("category_update", id) /\ UNCHANGED workers
       ELSE IF DOMAIN NameSerializerErrors(data, partial) # {}
       THEN /\ resp' = BadRequest("category_update", NameSerializerErrors(data, partial))
            /\ UNCHANGED workers
       ELSE /\ Goto(w, [pc |-> "category_save", id |-> id,
                        row |-> Restrict(data, DOMAIN data \cap {"name"}) @@ categories[id]])
    /\ UNCHANGED catalogVars
    /\ UNCHANGED userVars

\* CategoryViewSet.update, serializer.save(): the UPDATE of Model.save(), and the
\* 200 response when it matched the row; when it matched no row, Model.save()
\* goes on to an INSERT
CategorySave(w) ==
    /\ workers[w].pc = "category_save"
    /\ IF workers[w].id \in DOMAIN categories
       THEN /\ categories' = [categories EXCEPT ![workers[w].id] = workers[w].row]
            /\ resp' = [op |-> "category_update", status |-> 200,
                        body |-> [id |-> workers[w].id] @@ workers[w].row]
            /\ Done(w)
       ELSE /\ Goto(w, [workers[w] EXCEPT !.pc = "category_save_insert"])
            /\ UNCHANGED categories
    /\ UNCHANGED <<onDelete, authors, books, nextAuthorId, nextCategoryId, nextBookId,
                   deleted>>
    /\ UNCHANGED userVars

\* CategoryViewSet.update, serializer.save(): the INSERT of Model.save() under
\* the id of the instance, and the 200 response.  The store refuses the row
\* when the id is stored again.
CategorySaveInsert(w) ==
    /\ workers[w].pc = "category_save_insert"
    /\ IF workers[w].id \in DOMAIN categories
       THEN /\ resp' = ServerError("category_update", "IntegrityError")
            /\ UNCHANGED categories
       ELSE /\ categories' = (workers[w].id :> workers[w].row) @@ categories
            /\ resp' = [op |-> "category_update", status |-> 200,
                        body |-> [id |-> workers[w].id] @@ workers[w].row]
    /\ Done(w)
    /\ UNCHANGED <<onDelete, authors, books, nextAuthorId, nextCategoryId, nextBookId,
                   deleted>>
    /\ UNCHANGED userVars

\* CategoryViewSet.destroy (DestroyModelMixin.destroy), get_object.  Under
\* CASCADE the collector of instance.delete() runs no query of its own: it
\* leaves the Books to the DELETE.
CategoryViewSetDestroy(w, cred, id) ==
    /\ workers[w].pc = "idle"
    /\ IF Refused(cred, DefaultPermission)
       THEN resp' = RefusedResponse("category_destroy", cred) /\ UNCHANGED workers
       ELSE IF id \notin DOMAIN categories
       THEN resp' = NotFound("category_destroy", id) /\ UNCHANGED workers
       ELSE Goto(w, [pc |-> IF onDelete["category"] = "PROTECT" THEN "category_collect"
                            ELSE "category_delete",
                     id |-> id])
    /\ UNCHANGED catalogVars
    /\ UNCHANGED userVars

\* CategoryViewSet.destroy, instance.delete() under PROTECT: the collector's
\* SELECT of the Books that reference the Category, and ProtectedError when
\* there is one
CategoryCollect(w) ==
    /\ workers[w].pc = "category_collect"
    /\ IF BooksOfCategory(workers[w].id) # {}
       THEN resp' = ServerError("category_destroy", "ProtectedError") /\ Done(w)
       ELSE Goto(w, [pc |-> "category_delete", id |-> workers[w].id])
    /\ UNCHANGED catalogVars
    /\ UNCHANGED userVars

\* CategoryViewSet.destroy, instance.delete(), and the 204 response.  Under
\* CASCADE one transaction deletes every Book that references the Category
\* and then the row.  Under PROTECT the row alone is deleted, and the store
\* refuses the DELETE while a Book references it.
CategoryDelete(w) ==
    /\ workers[w].pc = "category_delete"
    /\ IF onDelete["category"] = "CASCADE"
       THEN /\ books' = Remove(books, BooksOfCategory(workers[w].id))
            /\ categories' = Remove(categories, {workers[w].id})
            /\ resp' = NoContent("category_destroy", workers[w].id)
       ELSE IF BooksOfCategory(workers[w].id) # {}
       THEN /\ resp' = ServerError("category_destroy", "IntegrityError")
            /\ UNCHANGED <<categories, books>>
       ELSE /\ categories' = Remove(categories, {workers[w].id})
            /\ resp' = NoContent("category_destroy", workers[w].id)
            /\ UNCHANGED books
    /\ Done(w)
    /\ UNCHANGED <<onDelete, authors, nextAuthorId, nextCategoryId, nextBookId, deleted>>
    /\ UNCHANGED userVars

(***************************************************************************)
(* Books: create, retrieve, update, destroy                                *)
(***************************************************************************)
BookFields == {"title", "description", "author", "category"}

\* the related fields of BookSerializer, in its field order: is_valid runs one
\* SELECT for each of them that the payload holds
RelatedFields == <<"author", "category">>

Pending(data) == SelectSeq(RelatedFields, LAMBDA f : f \in DOMAIN data)

\* a Book that has no row yet has no id
None == "None"

\* BookSerializer.is_valid, the checks that need no query: a field may be
\* absent from the payload only in a partial update, a text may not be blank
BookFieldErrors(data, partial) ==
    LET code(f) ==
            IF f \notin DOMAIN data THEN (IF partial THEN "ok" ELSE "required")
            ELSE IF f \in {"title", "description"} /\ data[f] = <<>> THEN "blank"
            ELSE "ok"
    IN [f \in {g \in BookFields : code(g) # "ok"} |-> code(f)]

\* PrimaryKeyRelatedField.to_internal_value: the SELECT of the referenced row
RelatedExists(f, id) ==
    IF f = "author" THEN id \in DOMAIN authors ELSE id \in DOMAIN categories

\* the referential integrity the store enforces on a Book row it is to write
ForeignKeysHold(row) ==
    row["author"] \in DOMAIN authors /\ row["category"] \in DOMAIN categories

\* the end of BookSerializer.is_valid(raise_exception=True): 400 with the
\* field errors, or on to serializer.save()
ValidationDone(w, req) ==
    IF DOMAIN req.errors # {}
    THEN resp' = BadRequest(req.op, req.errors) /\ Done(w)
    ELSE Goto(w, [req EXCEPT !.pc = req.save])

\* A validation that takes the first pending reference as stored.
ValidateRelatedUnchecked(w, req) ==
    IF Tail(req.pending) # <<>>
    THEN /\ Goto(w, [req EXCEPT !.pc = "book_validate", !.pending = Tail(req.pending)])
    ELSE ValidationDone(w, [req EXCEPT !.pending = <<>>])

\* BookSerializer.is_valid, the SELECT for the first pending related field;
\* after the last one validation ends
ValidateRelated(w, req) ==
    LET f == Head(req.pending)
        errors == IF RelatedExists(f, req.data[f]) THEN req.errors
                  ELSE (f :> "does_not_exist") @@ req.errors
    IN IF Tail(req.pending) # <<>>
       THEN /\ Goto(w, [req EXCEPT !.pc = "book_validate",
                                   !.pending = Tail(req.pending), !.errors = errors])
       ELSE ValidationDone(w, [req EXCEPT !.pending = <<>>, !.errors = errors])

\* BookSerializer.is_valid from its start: straight to its end when the
\* payload holds no related field
BeginValidation(w, req) ==
    IF req.pending = <<>> THEN ValidationDone(w, req) ELSE ValidateRelated(w, req)

\* the creates that may still insert a row
InFlightCreates ==
    Cardinality({w \in Procs : /\ workers[w].pc \in {"book_validate", "book_insert"}
                               /\ workers[w].save = "book_insert"})

\* create of a Book under the permission of the view, up to the first
\* statement of serializer.is_valid(raise_exception=True)
CreateBook(w, op, permission, cred, data) ==
    /\ workers[w].pc = "idle"
    /\ nextBookId + InFlightCreates <= MaxBookId
    /\ IF Refused(cred, permission)
       THEN resp' = RefusedResponse(op, cred) /\ UNCHANGED workers
       ELSE BeginValidation(w, [pc |-> "book_validate", op |-> op, save |-> "book_insert",
                                id |-> None, instance |-> EmptyTable,
                                data |-> Restrict(data, DOMAIN data \cap BookFields),
                                pending |-> Pending(data),
                                errors |-> BookFieldErrors(data, FALSE)])
    /\ UNCHANGED catalogVars
    /\ UNCHANGED userVars

\* BookViewSet.create
BookViewSetCreate(w, cred, data) ==
    CreateBook(w, "book_create", BookViewSetPermission, cred, data)

\* BookCreateView (generics.CreateAPIView)
BookCreateView(w, cred, data) ==
    CreateBook(w, "book_create_view", DefaultPermission, cred, data)

\* serializer.is_valid of a create or an update, a further SELECT
BookValidate(w) ==
    /\ workers[w].pc = "book_validate"
    /\ ValidateRelated(w, workers[w])
    /\ UNCHANGED catalogVars
    /\ UNCHANGED userVars

\* serializer.save() of a create: the INSERT, and the 201 response with
\* serializer.data.  The store refuses a row whose Author or Category was
\* deleted after validation; the id of the refused row is spent or not,
\* as the store has it.
BookInsert(w) ==
    /\ workers[w].pc = "book_insert"
    /\ IF ~ForeignKeysHold(workers[w].data)
       THEN /\ resp' = ServerError(workers[w].op, "IntegrityError")
            /\ nextBookId' \in {nextBookId, nextBookId + 1}
            /\ UNCHANGED <<books, deleted>>
       ELSE /\ books' = (nextBookId :> workers[w].data) @@ books
            /\ nextBookId' = nextBookId + 1
            /\ deleted' = deleted \ {nextBookId}
            /\ resp' = [op |-> workers[w].op, status |-> 201, id |-> nextBookId,
                        body |-> [id |-> nextBookId] @@ workers[w].data]
    /\ Done(w)
    /\ UNCHANGED <<onDelete, authors, categories, nextAuthorId, nextCategoryId>>
    /\ UNCHANGED userVars

\* BookSerializer(instance).data
BookRepr(id) == [id |-> id] @@ books[id]

\* RetrieveModelMixin.retrieve under the permission of the view: get_object,
\* one SELECT
RetrieveBook(op, permission, cred, id) ==
    /\ resp' = IF Refused(cred, permission) THEN RefusedResponse(op, cred)
               ELSE IF id \notin DOMAIN books THEN NotFound(op, id)
               ELSE [op |-> op, status |-> 200, id |-> id, body |-> BookRepr(id)]
    /\ UNCHANGED catalogVars
    /\ UNCHANGED authVars

\* BookViewSet.retrieve
BookViewSetRetrieve(cred, id) == RetrieveBook("book_retrieve", BookViewSetPermission, cred, id)

\* BookDetailView (generics.RetrieveAPIView)
BookDetailView(cred, id) == RetrieveBook("book_detail_view", DefaultPermission, cred, id)

\* BookViewSet.update (PUT, and PATCH with partial = TRUE), get_object: the
\* SELECT of the row the serializer will write back.  serializer.is_valid
\* follows, each of its SELECTs a statement of its own; it ends here when the
\* payload holds no related field.
BookViewSetUpdate(w, cred, id, data, partial) ==
    /\ workers[w].pc = "idle"
    /\ IF Refused(cred, BookViewSetPermission)
       THEN resp' = RefusedResponse("book_update", cred) /\ UNCHANGED workers
       ELSE IF id \notin DOMAIN books
       THEN resp' = NotFound("book_update", id) /\ UNCHANGED workers
       ELSE LET req == [pc |-> "book_validate", op |-> "book_update",
                        save |-> "book_save", id |-> id, instance |-> books[id],
                        data |-> Restrict(data, DOMAIN data \cap BookFields),
                        pending |-> Pending(data),
                        errors |-> BookFieldErrors(data, partial)]
            IN IF req.pending = <<>> THEN ValidationDone(w, req) ELSE Goto(w, req)
    /\ UNCHANGED catalogVars
    /\ UNCHANGED userVars

\* serializer.save() of an update: the UPDATE of Model.save(), which writes
\* every field of the instance, and the 200 response when it matched the row;
\* when it matched no row, Model.save() goes on to an INSERT.  The store
\* refuses a row whose Author or Category is not stored.
BookSave(w) ==
    /\ workers[w].pc = "book_save"
    /\ LET row == workers[w].data @@ workers[w].instance IN
       IF workers[w].id \notin DOMAIN books
       THEN /\ Goto(w, [workers[w] EXCEPT !.pc = "book_save_insert"])
            /\ UNCHANGED books
       ELSE IF ~ForeignKeysHold(row)
       THEN /\ resp' = ServerError("book_update", "IntegrityError")
            /\ Done(w)
            /\ UNCHANGED books
       ELSE /\ books' = [books EXCEPT ![workers[w].id] = row]
            /\ resp' = [op |-> "book_update", status |-> 200, id |-> workers[w].id,
                        body |-> [id |-> workers[w].id] @@ row]
            /\ Done(w)
    /\ UNCHANGED <<onDelete, authors, categories, nextAuthorId, nextCategoryId,
                  nextBookId, deleted>>
    /\ UNCHANGED userVars

\* serializer.save() of an update: the INSERT of Model.save() under the id of
\* the instance, and the 200 response.  The store refuses the row when the id
\* is stored again, and when its Author or Category is not stored.
BookSaveInsert(w) ==
    /\ workers[w].pc = "book_save_insert"
    /\ LET row == workers[w].data @@ workers[w].instance IN
       IF workers[w].id \in DOMAIN books \/ ~ForeignKeysHold(row)
       THEN /\ resp' = ServerError("book_update", "IntegrityError")
            /\ UNCHANGED books
       ELSE /\ books' = (workers[w].id :> row) @@ books
            /\ resp' = [op |-> "book_update", status |-> 200, id |-> workers[w].id,
                        body |-> [id |-> workers[w].id] @@ row]
    /\ Done(w)
    /\ UNCHANGED <<onDelete, authors, categories, nextAuthorId, nextCategoryId,
                  nextBookId, deleted>>
    /\ UNCHANGED userVars

\* BookViewSet.destroy, get_object
BookViewSetDestroy(w, cred, id) ==
    /\ workers[w].pc = "idle"
    /\ IF Refused(cred, BookViewSetPermission)
       THEN resp' = RefusedResponse("book_destroy", cred) /\ UNCHANGED workers
       ELSE IF id \notin DOMAIN books
       THEN resp' = NotFound("book_destroy", id) /\ UNCHANGED workers
       ELSE Goto(w, [pc |-> "book_delete", id |-> id])
    /\ UNCHANGED catalogVars
    /\ UNCHANGED userVars

\* BookViewSet.destroy, instance.delete() and the 204 response: the DELETE
\* removes the row of the id, or no row when the id is stored no more
BookDelete(w) ==
    /\ workers[w].pc = "book_delete"
    /\ books' = Remove(books, {workers[w].id})
    /\ deleted' = deleted \cup {workers[w].id}
    /\ resp' = NoContent("book_destroy", workers[w].id)
    /\ Done(w)
    /\ UNCHANGED <<onDelete, authors, categories, nextAuthorId, nextCategoryId, nextBookId>>
    /\ UNCHANGED userVars

(***************************************************************************)
(* Books: list (search, ordering, pagination)                              *)
(***************************************************************************)
\* CustomPagination
page_size == 10
max_page_size == 100

\* Book.objects.all(): the rows in the store's order, ascending id
Queryset == SelectSeq([i \in 1..(nextBookId - 1) |-> i], LAMBDA i : i \in DOMAIN books)

Param(params, name, default) == IF name \in DOMAIN params THEN params[name] ELSE default

\* SearchFilter.get_search_terms
SearchTerms(params) ==
    Split(ReplaceChar(RemoveChar(Param(params, "search", <<>>), "\\0"), ",", " "))

\* search_fields of BookViewSet
search_fields == {"title", "description"}

\* SearchFilter.filter_queryset: every term must be found in some search field
SearchFilter(qs, params) ==
    LET terms == SearchTerms(params) IN
    SelectSeq(qs, LAMBDA id :
        \A k \in 1..Len(terms) : \E f \in search_fields : IContains(books[id][f], terms[k]))

\* the names a query string gives the fields of BookSerializer
FieldId == <<"i","d">>
FieldTitle == <<"t","i","t","l","e">>
FieldDescription == <<"d","e","s","c","r","i","p","t","i","o","n">>
FieldAuthor == <<"a","u","t","h","o","r">>
FieldCategory == <<"c","a","t","e","g","o","r","y">>

\* OrderingFilter.get_default_valid_fields: the fields of the serializer
OrderingFields == {FieldId, FieldTitle, FieldDescription, FieldAuthor, FieldCategory}

Descending(term) == term # <<>> /\ term[1] = "-"
FieldOf(term) == IF Descending(term) THEN Tail(term) ELSE term

\* OrderingFilter.get_ordering: the comma-separated terms of the ordering
\* parameter, stripped, without the ones that name no field
GetOrdering(params) ==
    LET pieces == SplitOn(Param(params, "ordering", <<>>), ",")
        terms == [i \in 1..Len(pieces) |-> Strip(pieces[i])]
    IN SelectSeq(terms, LAMBDA term : FieldOf(term) \in OrderingFields)

\* row a sorts before row b on one field (a reference sorts by its id)
FieldLess(a, b, field) ==
    CASE field = FieldId -> a < b
      [] field = FieldTitle -> TextLess(books[a].title, books[b].title)
      [] field = FieldDescription -> TextLess(books[a].description, books[b].description)
      [] field = FieldAuthor -> books[a].author < books[b].author
      [] field = FieldCategory -> books[a].category < books[b].category

TermLess(a, b, term) ==
    IF Descending(term) THEN FieldLess(b, a, FieldOf(term))
    ELSE FieldLess(a, b, FieldOf(term))

\* row a sorts before row b under ORDER BY ordering
RECURSIVE SortsBefore(_, _, _)
SortsBefore(a, b, ordering) ==
    IF ordering = <<>> THEN FALSE
    ELSE \/ TermLess(a, b, Head(ordering))
         \/ ~TermLess(b, a, Head(ordering)) /\ SortsBefore(a, b, Tail(ordering))

\* the orders in which ORDER BY ordering may return the rows ids: a row
\* that no other row sorts before comes first, rows that tie come in any order
RECURSIVE SortedOrders(_, _)
SortedOrders(ids, ordering) ==
    IF ids = {} THEN {<<>>}
    ELSE UNION {{<<first>> \o rest : rest \in SortedOrders(ids \ {first}, ordering)} :
                   first \in {a \in ids : \A b \in ids : ~SortsBefore(b, a, ordering)}}

\* OrderingFilter.filter_queryset: the orders in which the store may return
\* the rows.  Without a valid ordering term the rows stay in the store's
\* order.
OrderingFilter(qs, params) ==
    LET ordering == GetOrdering(params) IN
    IF ordering = <<>> THEN {qs}
    ELSE SortedOrders({qs[i] : i \in 1..Len(qs)}, ordering)

\* filterset_fields of BookViewSet
filterset_fields == {"category__name", "author__name"}

\* DjangoFilterBackend.filter_queryset: exact match on each filterset field
\* the query string names
DjangoFilterBackend(qs, params) ==
    SelectSeq(qs, LAMBDA id :
        /\ ("author__name" \in filterset_fields \cap DOMAIN params
              => authors[books[id].author].name = params["author__name"])
        /\ ("category__name" \in filterset_fields \cap DOMAIN params
              => categories[books[id].category].name = params["category__name"]))

\* filter_backends of BookViewSet
filter_backends == <<"SearchFilter", "OrderingFilter">>

\* one filter backend: the row sequences its query may return
ApplyBackend(backend, qs, params) ==
    CASE backend = "SearchFilter" -> {SearchFilter(qs, params)}
      [] backend = "OrderingFilter" -> OrderingFilter(qs, params)
      [] backend = "DjangoFilterBackend" -> {DjangoFilterBackend(qs, params)}

\* GenericAPIView.filter_queryset: the view's filter backends, applied in order
RECURSIVE FilterQueryset(_, _, _)
FilterQueryset(backends, querysets, params) ==
    IF backends = <<>> THEN querysets
    ELSE FilterQueryset(Tail(backends),
                        UNION {ApplyBackend(Head(backends), qs, params) : qs \in querysets},
                        params)

\* the row sequences a SELECT of BookViewSet's filtered queryset may return
BookViewSetFilterQueryset(params) == FilterQueryset(filter_backends, {Queryset}, params)

\* A page size taken from the request without the cap.
GetPageSizeUncapped(params) ==
    LET n == ParseInt(Param(params, "page_size", <<>>)) IN
    IF "page_size" \in DOMAIN params /\ n.ok /\ n.value > 0 THEN n.value ELSE page_size

\* PageNumberPagination.get_page_size
GetPageSize(params) ==
    LET n == ParseInt(Param(params, "page_size", <<>>)) IN
    IF "page_size" \in DOMAIN params /\ n.ok /\ n.value > 0
    THEN Min(n.value, max_page_size)
    ELSE page_size

\* Paginator.num_pages
NumPages(count, per_page) == IF count = 0 THEN 1 ELSE (count + per_page - 1) \div per_page

\* PageNumberPagination.last_page_strings
Last == <<"l","a","s","t">>

\* PageNumberPagination.get_page_number and Paginator.validate_number: the
\* page parameter, 1 when absent or empty, the last page for "last"; 0 stands
\* for a page that is not valid
PageNumber(params, count, per_page) ==
    LET raw == Param(params, "page", <<>>)
        n == IF raw = <<>> THEN [ok |-> TRUE, value |-> 1]
             ELSE IF raw = Last THEN [ok |-> TRUE, value |-> NumPages(count, per_page)]
             ELSE ParseInt(raw)
    IN IF n.ok /\ n.value >= 1 /\ n.value <= NumPages(count, per_page)
       THEN n.value ELSE 0

\* Paginator.page: the slice of the rows for page number, (number - 1) *
\* per_page rows skipped, and cut at the count the paginator has read
PageOf(qs, number, per_page, count) ==
    SubSeq(qs, (number - 1) * per_page + 1, Min(Min(number * per_page, count), Len(qs)))

\* A page cut from the unfiltered rows and searched afterwards.
PageSelectSearchAfterCut(params, number, per_page, count) ==
    {SearchFilter(PageOf(qs, number, per_page, count), params) :
        qs \in OrderingFilter(Queryset, params)}

\* list(self.page): the SELECT of the page's rows, the results it may return
PageSelect(params, number, per_page, count) ==
    {PageOf(qs, number, per_page, count) : qs \in BookViewSetFilterQueryset(params)}

\* ListModelMixin.list of BookViewSet, up to paginator.page(): filter_queryset,
\* get_page_size, the paginator's SELECT COUNT(*), the check of the page
\* number (404)
BookViewSetList(w, cred, params) ==
    /\ workers[w].pc = "idle"
    /\ IF Refused(cred, BookViewSetPermission)
       THEN resp' = RefusedResponse("book_list", cred) /\ UNCHANGED workers
       ELSE LET count == Len(CHOOSE qs \in BookViewSetFilterQueryset(params) : TRUE)
                per_page == GetPageSize(params)
                number == PageNumber(params, count, per_page)
            IN IF number = 0
               THEN /\ resp' = [op |-> "book_list", status |-> 404, params |-> params,
                                body |-> [detail |-> "Invalid page."]]
                    /\ UNCHANGED workers
               ELSE /\ Goto(w, [pc |-> "book_list_page", params |-> params,
                                count |-> count, per_page |-> per_page,
                                number |-> number])
    /\ UNCHANGED catalogVars
    /\ UNCHANGED userVars

\* ListModelMixin.list of BookViewSet, list(self.page) and
\* get_paginated_response: the SELECT of the page's rows.  results holds the
\* ids of the rows; count, next and previous come from the count read before.
BookViewSetListPage(w) ==
    /\ workers[w].pc = "book_list_page"
    /\ LET req == workers[w] IN
       \E results \in PageSelect(req.params, req.number, req.per_page, req.count) :
          resp' = [op |-> "book_list", status |-> 200, params |-> req.params,
                   body |-> [count |-> req.count,
                             next |-> IF req.number < NumPages(req.count, req.per_page)
                                      THEN req.number + 1 ELSE 0,
                             previous |-> IF req.number > 1 THEN req.number - 1 ELSE 0,
                             results |-> results]]
    /\ Done(w)
    /\ UNCHANGED catalogVars
    /\ UNCHANGED userVars

\* BookListView.list, serializer.data: the SELECT of every book, unpaginated
\* (the view has no filter backend of its own)
BookListView(w, cred) ==
    /\ workers[w].pc = "idle"
    /\ IF Refused(cred, DefaultPermission)
       THEN resp' = RefusedResponse("book_list_view", cred) /\ UNCHANGED workers
       ELSE Goto(w, [pc |-> "book_list_render", books |-> Queryset])
    /\ UNCHANGED catalogVars
    /\ UNCHANGED userVars

\* BookListView.list, render: the template reads the authors and the
\* categories, one SELECT each, in the order the template names them; the
\* page is answered after the second
BookListViewRender(w) ==
    /\ workers[w].pc = "book_list_render"
    /\ \E table \in {"authors", "categories"} \ DOMAIN workers[w] :
          LET rows == IF table = "authors" THEN DOMAIN authors ELSE DOMAIN categories
              read == (table :> rows) @@ workers[w]
          IN IF {"authors", "categories"} \subseteq DOMAIN read
             THEN /\ resp' = [op |-> "book_list_view", status |-> 200,
                              body |-> [authors |-> read["authors"],
                                        categories |-> read["categories"],
                                        books |-> read["books"]]]
                  /\ Done(w)
             ELSE Goto(w, read)
    /\ UNCHANGED catalogVars
    /\ UNCHANGED userVars

(***************************************************************************)
(* Specification of the account endpoints                                  *)
(***************************************************************************)
\* a schema whose Book keys cascade
Cascading == [f \in {"author", "category"} |-> "CASCADE"]

InitCatalogEmpty ==
    /\ authors = EmptyTable
    /\ categories = EmptyTable
    /\ books = EmptyTable
    /\ nextAuthorId = 1
    /\ nextCategoryId = 1
    /\ nextBookId = 1
    /\ deleted = {}

InitAuth ==
    /\ onDelete = Cascading
    /\ users = <<>>
    /\ tokens = {}
    /\ workers = [w \in Procs |-> Idle]
    /\ issued = [u \in 1..MaxUsers |-> <<>>]
    /\ InitCatalogEmpty
    /\ resp = NoResp

NextAuth ==
    \/ \E w \in TwoProcs, data \in RegistrationData : UserRegistrationValidate(w, data)
    \/ \E w \in TwoProcs : UserRegistrationSave(w)
    \/ \E w \in TwoProcs, data \in LoginData : UserLoginValidate(w, data)
    \/ \E w \in TwoProcs : TokenGet(w)
    \/ \E w \in TwoProcs, key \in Keys : TokenCreate(w, key)

SpecAuth == InitAuth /\ [][NextAuth]_vars

(***************************************************************************)
(* Specification of the catalog endpoints: two workers, their requests     *)
(* interleaved statement by statement                                      *)
(***************************************************************************)
\* One registered user who has logged in once.
InitLoggedIn ==
    /\ users = <<[username |-> "ann", email |-> "a@x.org",
                  password |-> make_password("pw1")]>>
    /\ tokens = {[key |-> "k1", user |-> 1]}
    /\ workers = [w \in Procs |-> Idle]
    /\ issued = [u \in 1..MaxUsers |-> IF u = 1 THEN <<"k1">> ELSE <<>>]

InitCatalog ==
    /\ InitLoggedIn
    /\ InitCatalogEmpty
    /\ onDelete \in [{"author", "category"} -> OnDelete]
    /\ resp = NoResp

Dune == <<"D","u","n","e">>
Emma == <<"E","m","m","a">>
Sand == <<"s","a","n","d">>
NotDune == <<"n","o","t"," ","D","U","N","E">>

\* the identifiers requests name: the ones the tables hand out and one more
AuthorRefs == AuthorIds \cup {2}
CategoryRefs == CategoryIds \cup {2}
BookRefs == 1..(MaxBookId + 1)

\* the payloads of the Author and Category requests
AuthorData == {[name |-> Ann], [name |-> <<>>]}
AuthorChanges == {[name |-> Bob]}
CategoryData == {[name |-> Fic], [name |-> <<>>]}
CategoryChanges == {[name |-> Sci]}

\* the payloads of the Book creates: complete ones, and one without category
BookData ==
    [title : {Dune}, description : {Sand}, author : AuthorRefs, category : CategoryIds]
    \cup {[title |-> Dune, description |-> Sand, author |-> 1, category |-> 2],
          [title |-> <<>>, description |-> Sand, author |-> 1]}

\* the payloads of the Book updates
BookChanges == {[title |-> Emma], [author |-> 1], [author |-> 2]}

\* the callers of the writes: one without credentials, one with the token of
\* the user who has logged in (the reads are also called with a token that is
\* not stored)
LoggedIn == "k1"
Callers == {NoCred, LoggedIn}

NextCatalog ==
    \/ \E cred \in Callers, data \in AuthorData : AuthorViewSetCreate(cred, data)
    \/ \E w \in TwoProcs, cred \in Callers, id \in AuthorRefs : AuthorViewSetDestroy(w, cred, id)
    \/ \E w \in TwoProcs : AuthorCollect(w)
    \/ \E w \in TwoProcs : AuthorDelete(w)
    \/ \E cred \in Callers, data \in CategoryData : CategoryViewSetCreate(cred, data)
    \/ \E w \in TwoProcs, cred \in Callers, id \in CategoryRefs :
          CategoryViewSetDestroy(w, cred, id)
    \/ \E w \in TwoProcs : CategoryCollect(w)
    \/ \E w \in TwoProcs : CategoryDelete(w)
    \/ \E w \in TwoProcs, cred \in Callers, data \in BookData : BookViewSetCreate(w, cred, data)
    \/ \E w \in TwoProcs, cred \in Callers, data \in BookData : BookCreateView(w, cred, data)
    \/ \E w \in TwoProcs : BookValidate(w)
    \/ \E w \in TwoProcs : BookInsert(w)
    \/ \E cred \in Creds, id \in BookRefs : BookViewSetRetrieve(cred, id)
    \/ \E cred \in Creds, id \in BookRefs : BookDetailView(cred, id)
    \/ \E w \in TwoProcs, cred \in Callers, id \in BookRefs, data \in BookChanges :
          BookViewSetUpdate(w, cred, id, data, TRUE)
    \/ \E w \in TwoProcs : BookSave(w)
    \/ \E w \in TwoProcs : BookSaveInsert(w)
    \/ \E w \in TwoProcs, cred \in Callers, id \in BookRefs : BookViewSetDestroy(w, cred, id)
    \/ \E w \in TwoProcs : BookDelete(w)

SpecCatalog == InitCatalog /\ [][NextCatalog]_vars

(***************************************************************************)
(* Specification of the reads of a filled catalog, interleaved with the    *)
(* requests that change a name or delete a book                            *)
(***************************************************************************)
\* No request here deletes an Author or a Category: the UPDATE of a save
\* matches its row, and Model.save() never goes on to its INSERT.
\* A catalog of two authors, two categories and a book of each.
InitBrowse ==
    /\ InitLoggedIn
    /\ onDelete = Cascading
    /\ authors = (1 :> [name |-> Ann]) @@ (2 :> [name |-> Bob])
    /\ categories = (1 :> [name |-> Fic]) @@ (2 :> [name |-> Sci])
    /\ books = (1 :> [title |-> Dune, description |-> Sand, author |-> 1, category |-> 1])
               @@ (2 :> [title |-> Emma, description |-> Sand, author |-> 2, category |-> 2])
    /\ nextAuthorId = 3
    /\ nextCategoryId = 3
    /\ nextBookId = 3
    /\ deleted = {}
    /\ resp = NoResp

\* the query strings of the list requests
BrowseParams ==
    {EmptyTable, [author__name |-> Bob], [category__name |-> Sci],
     [page_size |-> <<"1">>, page |-> <<"2">>]}

NextBrowse ==
    \/ \E cred \in Callers : AuthorViewSetList(cred)
    \/ \E cred \in Callers, id \in AuthorRefs : AuthorViewSetRetrieve(cred, id)
    \/ \E w \in TwoProcs, cred \in Callers, id \in AuthorRefs, data \in AuthorChanges :
          AuthorViewSetUpdate(w, cred, id, data, TRUE)
    \/ \E w \in TwoProcs, cred \in Callers, id \in AuthorRefs, data \in AuthorData :
          AuthorViewSetUpdate(w, cred, id, data, FALSE)
    \/ \E w \in TwoProcs : AuthorSave(w)
    \/ \E cred \in Callers : CategoryViewSetList(cred)
    \/ \E cred \in Callers, id \in CategoryRefs : CategoryViewSetRetrieve(cred, id)
    \/ \E w \in TwoProcs, cred \in Callers, id \in CategoryRefs, data \in CategoryChanges :
          CategoryViewSetUpdate(w, cred, id, data, TRUE)
    \/ \E w \in TwoProcs, cred \in Callers, id \in CategoryRefs, data \in CategoryData :
          CategoryViewSetUpdate(w, cred, id, data, FALSE)
    \/ \E w \in TwoProcs : CategorySave(w)
    \/ \E w \in TwoProcs, cred \in Callers, params \in BrowseParams :
          BookViewSetList(w, cred, params)
    \/ \E w \in TwoProcs : BookViewSetListPage(w)
    \/ \E w \in TwoProcs, cred \in Callers : BookListView(w, cred)
    \/ \E w \in TwoProcs : BookListViewRender(w)
    \/ \E w \in TwoProcs, cred \in Callers, id \in BookRefs : BookViewSetDestroy(w, cred, id)
    \/ \E w \in TwoProcs : BookDelete(w)

SpecBrowse == InitBrowse /\ [][NextBrowse]_vars

(***************************************************************************)
(* Specification of the updates and deletes of one Author, one Category    *)
(* and one Book: three workers, so that two updates of a row and a delete  *)
(* of it are in flight together                                            *)
(***************************************************************************)
\* The Book keys cascade here: a delete of an Author or a Category goes
\* from get_object to its DELETE, without the collector's SELECT.
InitSave ==
    /\ InitLoggedIn
    /\ onDelete = Cascading
    /\ authors = (1 :> [name |-> Ann])
    /\ categories = (1 :> [name |-> Fic])
    /\ books = (1 :> [title |-> Dune, description |-> Sand, author |-> 1, category |-> 1])
    /\ nextAuthorId = 2
    /\ nextCategoryId = 2
    /\ nextBookId = 2
    /\ deleted = {}
    /\ resp = NoResp

\* the payloads of the Book updates: one without a related field, one with
SaveChanges == {[title |-> Emma], [author |-> 1]}

NextSave ==
    \/ \E w \in Procs, data \in AuthorChanges :
          AuthorViewSetUpdate(w, LoggedIn, 1, data, TRUE)
    \/ \E w \in Procs : AuthorSave(w)
    \/ \E w \in Procs : AuthorSaveInsert(w)
    \/ \E w \in Procs : AuthorViewSetDestroy(w, LoggedIn, 1)
    \/ \E w \in Procs : AuthorDelete(w)
    \/ \E w \in Procs, data \in CategoryChanges :
          CategoryViewSetUpdate(w, LoggedIn, 1, data, TRUE)
    \/ \E w \in Procs : CategorySave(w)
    \/ \E w \in Procs : CategorySaveInsert(w)
    \/ \E w \in Procs : CategoryViewSetDestroy(w, LoggedIn, 1)
    \/ \E w \in Procs : CategoryDelete(w)
    \/ \E w \in Procs, data \in SaveChanges : BookViewSetUpdate(w, LoggedIn, 1, data, TRUE)
    \/ \E w \in Procs : BookValidate(w)
    \/ \E w \in Procs : BookSave(w)
    \/ \E w \in Procs : BookSaveInsert(w)
    \/ \E w \in Procs : BookViewSetDestroy(w, LoggedIn, 1)
    \/ \E w \in Procs : BookDelete(w)
    \/ \E cred \in Callers : BookViewSetRetrieve(cred, 1)
    \/ \E cred \in Callers : BookDetailView(cred, 1)

SpecSave == InitSave /\ [][NextSave]_vars

(***************************************************************************)
(* Specifications of the Book list over a catalog that does not change     *)
(***************************************************************************)
MaxListBooks == 3
MaxPageBooks == 201

\* the worker that serves the list requests
ListProcs == {"w1"}

\* the rows the Book table is filled with
ListRows ==
    {[title |-> Dune, description |-> Sand, author |-> 1, category |-> 1],
     [title |-> Emma, description |-> NotDune, author |-> 2, category |-> 2],
     [title |-> Emma, description |-> Sand, author |-> 1, category |-> 2]}

\* A catalog with two authors, two categories and up to MaxListBooks books.
InitList ==
    /\ InitLoggedIn
    /\ onDelete = Cascading
    /\ authors = (1 :> [name |-> Ann]) @@ (2 :> [name |-> Bob])
    /\ categories = (1 :> [name |-> Fic]) @@ (2 :> [name |-> Sci])
    /\ nextAuthorId = 3
    /\ nextCategoryId = 3
    /\ \E n \in 0..MaxListBooks :
          /\ books \in [1..n -> ListRows]
          /\ nextBookId = n + 1
    /\ deleted = {}
    /\ resp = NoResp

SearchValues ==
    {<<>>, <<"d","u","n","e">>, <<"D","U","N">>, <<"m","m">>,
     <<"s","a","n","d",","," ","D","u","n","e">>, <<"t","\r","d">>}

OrderingValues ==
    {<<"-","i","d">>, <<"i","d">>, <<"p","r","i","c","e">>, <<"-","t","i","t","l","e">>,
     <<"a","u","t","h","o","r",","," ","-","i","d">>}

\* the query strings of the list requests
ListParams ==
    {Restrict(q, F) :
        q \in [search : SearchValues, page_size : {<<"1">>}, page : {<<"2">>}],
        F \in SUBSET {"search", "page_size", "page"}}
    \cup {Restrict(q, F) :
        q \in [search : {<<"d","u","n","e">>}, page_size : {<<"2">>},
               ordering : OrderingValues],
        F \in {{"ordering"}, {"search", "ordering"}, {"search", "page_size", "ordering"}}}
    \cup {Restrict(q, F) :
        q \in [search : {<<"s","a","n","d">>}, author__name : {Ann, Bob},
               category__name : {Sci}],
        F \in {{"author__name"}, {"category__name"}, {"search", "author__name"},
               {"author__name", "category__name"}}}

NextList ==
    \/ \E w \in ListProcs, cred \in Callers : BookViewSetList(w, cred, EmptyTable)
    \/ \E w \in ListProcs, params \in ListParams : BookViewSetList(w, LoggedIn, params)
    \/ \E w \in ListProcs : BookViewSetListPage(w)

SpecList == InitList /\ [][NextList]_vars

PageBookCounts == (0..12) \cup {99, 100, 101, 199, 200, MaxPageBooks}

\* A catalog of identical books, more of them than the largest page.
InitPage ==
    /\ InitLoggedIn
    /\ onDelete = Cascading
    /\ authors = (1 :> [name |-> Ann])
    /\ categories = (1 :> [name |-> Fic])
    /\ nextAuthorId = 2
    /\ nextCategoryId = 2
    /\ \E n \in PageBookCounts :
          /\ books = [i \in 1..n |-> [title |-> Dune, description |-> Sand,
                                      author |-> 1, category |-> 1]]
          /\ nextBookId = n + 1
    /\ deleted = {}
    /\ resp = NoResp

PageSizeValues ==
    {<<>>, <<"0">>, <<"-","1">>, <<"t","e","n">>, <<"1">>, <<" ","5">>, <<"5","\n">>,
     <<"\\x1c","5">>, <<"5","\\x1f">>,
     <<"1","_","0">>, <<"1","_">>, <<"\\u0663">>, <<"1","1">>, <<"9","9">>,
     <<"1","0","0">>, <<"1","0","1">>, <<"2","0","0">>, <<"2","0","1">>}

PageValues ==
    {<<>>, <<"0">>, <<"1">>, <<"2">>, <<" ","2">>, <<"\\x1c","2">>, <<"3">>, <<"x">>, Last}

PageParams ==
    {Restrict(q, F) :
        q \in [page_size : PageSizeValues, page : PageValues],
        F \in SUBSET {"page_size", "page"}}

NextPage ==
    \/ \E w \in ListProcs, cred \in Callers : BookViewSetList(w, cred, EmptyTable)
    \/ \E w \in ListProcs, params \in PageParams : BookViewSetList(w, LoggedIn, params)
    \/ \E w \in ListProcs : BookViewSetListPage(w)

SpecPage == InitPage /\ [][NextPage]_vars

(***************************************************************************)
(* Properties of the account endpoints (checked under SpecAuth)            *)
(***************************************************************************)
LoginKeys(u) == {issued[u][i] : i \in 1..Len(issued[u])}

\* C2: all successful logins of one user return the same token string, the
\* one the first of them created and the Token table still holds, whatever
\* registrations and logins (failed or of other users) happen in between.
C2_LoginsReturnSameToken ==
    \A u \in DOMAIN issued :
        /\ Cardinality(LoginKeys(u)) <= 1
        /\ LoginKeys(u) \subseteq {t.key : t \in TokensOf(u)}

\* Reached: a user has logged in twice while another user has logged in too.
C2_Witness ==
    \E u, v \in UserIds : u # v /\ Len(issued[u]) >= 2 /\ Len(issued[v]) >= 1

\* C3: a registration that fails validation (as one naming the username of a
\* registered user does) is answered 400 with field-level errors and ends
\* there: no row is added, and the rows of the User table, that user's among
\* them, keep their identifier, username, email and password.  No step ever
\* changes a stored user, and no two users share a username.
C3_FailedRegistrationChangesNothing ==
    /\ [][\A w \in Procs, data \in RegistrationData :
            ((data.username = Blank \/ UsernameTaken(data.username)
              \/ data.email \in BadEmails \/ data.password = Blank)
             /\ UserRegistrationValidate(w, data))
            => /\ resp'.op = "register" /\ resp'.status = 400
               /\ DOMAIN resp'.body.errors # {}
               /\ (UsernameTaken(data.username) => "username" \in DOMAIN resp'.body.errors)
               /\ users' = users
               /\ workers'[w] = Idle]_vars
    /\ [][(resp' # resp /\ resp'.op = "register" /\ resp'.status = 400)
            => users' = users]_vars
    /\ [][\A u \in UserIds : u \in 1..Len(users') /\ users'[u] = users[u]]_vars
    /\ [](\A u, v \in UserIds : users[u].username = users[v].username => u = v)

\* Reached: a registration was refused because its username is taken.
C3_Witness ==
    /\ resp.op = "register" /\ resp.status = 400
    /\ "username" \in DOMAIN resp.body.errors
    /\ resp.body.errors["username"] = "unique"
    /\ users # <<>>

InvalidCredentials(data) ==
    ~ \E u \in UserIds : /\ users[u].username = data.username
                         /\ users[u].password = make_password(data.password)

\* C9: a login whose credentials match no user is answered 400 with the
\* credential errors and no token, and leaves the User and Token tables as
\* they were; when both fields are filled in, the errors are the same text
\* whether the username is unknown or the password is wrong.
C9_FailedLoginChangesNothing ==
    [][\A w \in Procs, data \in LoginData :
         ((InvalidCredentials(data) \/ BlankFields(data) # {}) /\ UserLoginValidate(w, data))
         => /\ resp'.op = "login" /\ resp'.status = 400
            /\ "token" \notin DOMAIN resp'.body
            /\ tokens' = tokens /\ users' = users /\ issued' = issued
            /\ workers'[w] = Idle
            /\ (BlankFields(data) = {} => resp'.body = CredentialError)]_vars

\* Reached: a login was refused with the credential error while users exist
\* and one of them already holds a token.
C9_Witness ==
    /\ resp.op = "login" /\ resp.status = 400 /\ resp.body = CredentialError
    /\ Len(users) = MaxUsers
    /\ tokens # {}

\* C10: in every reachable state, under every interleaving of registrations
\* and logins, a user has at most one token, a token string belongs to one
\* user only, and a token belongs to a registered user to whom a login has
\* returned it.
C10_TokenUniquePerUser ==
    /\ \A u \in 1..MaxUsers : Cardinality(TokensOf(u)) <= 1
    /\ \A t1, t2 \in tokens : t1.key = t2.key => t1 = t2
    /\ \A t \in tokens : t.user \in UserIds /\ t.key \in LoginKeys(t.user)

\* Reached: a first login is about to insert a token for a user for whom a
\* concurrent first login has just created one.
C10_Witness ==
    \E w \in Procs :
        /\ workers[w].pc = "login_create"
        /\ TokensOf(workers[w].user) # {}
        /\ Len(issued[workers[w].user]) = 1

(***************************************************************************)
(* Properties of the catalog endpoints (checked under SpecCatalog)         *)
(***************************************************************************)
\* the arrival of a request at one of the endpoints that read or write Book
\* rows: the first step of its handler
BookRequest(w, cred) ==
    \/ \E data \in BookData : BookViewSetCreate(w, cred, data) \/ BookCreateView(w, cred, data)
    \/ \E id \in BookRefs : BookViewSetRetrieve(cred, id) \/ BookDetailView(cred, id)
    \/ \E id \in BookRefs, data \in BookChanges : BookViewSetUpdate(w, cred, id, data, TRUE)
    \/ \E id \in BookRefs : BookViewSetDestroy(w, cred, id)
    \/ BookViewSetList(w, cred, EmptyTable)
    \/ BookListView(w, cred)

\* C1: a request of an unauthenticated caller to any endpoint that reads or
\* writes Book rows (those of BookViewSet, and BookDetailView, BookCreateView
\* and BookListView) is answered at once with an authentication or
\* authorization error: it runs no further statement, returns no book data
\* and leaves the Book table as it was.
C1_UnauthenticatedBookRequestRefused ==
    [][\A w \in Procs, cred \in Creds :
         (AuthenticateRequest(cred) # "user" /\ BookRequest(w, cred))
         => /\ resp'.status \in {401, 403}
            /\ workers' = workers
            /\ books' = books]_vars

\* the request is refused for field f: answered 400 with an error on f, or
\* still validating with the error on f recorded
RejectedFor(w, op, f) ==
    \/ /\ resp'.op = op /\ resp'.status = 400
       /\ f \in DOMAIN resp'.body.errors
       /\ workers'[w] = Idle
    \/ /\ workers'[w].pc = "book_validate"
       /\ workers'[w].op = op
       /\ f \in DOMAIN workers'[w].errors

\* the first reference a create with this payload looks up is not stored
FirstReferenceMissing(data) ==
    Pending(data) # <<>> /\ ~RelatedExists(Head(Pending(data)), data[Head(Pending(data))])

CreateOps == {"book_create", "book_create_view"}

\* C4: a Book create whose validation finds the author or the category it
\* names not stored is answered 400 with an error on that field, never
\* reaches its INSERT and leaves the Book table as it was; every row a
\* request writes to the Book table references an Author and a Category that
\* are stored when it is written, and so does every stored Book.
C4_BookReferencesExist ==
    /\ [][\A w \in Procs :
            (workers[w].pc = "idle" /\ (workers'[w].pc # "idle" \/ resp'.op \in CreateOps))
            => \A cred \in Callers, data \in BookData :
                  /\ (FirstReferenceMissing(data) /\ ~Refused(cred, BookViewSetPermission)
                      /\ BookViewSetCreate(w, cred, data))
                     => /\ RejectedFor(w, "book_create", Head(Pending(data)))
                        /\ books' = books
                  /\ (FirstReferenceMissing(data) /\ ~Refused(cred, DefaultPermission)
                      /\ BookCreateView(w, cred, data))
                     => /\ RejectedFor(w, "book_create_view", Head(Pending(data)))
                        /\ books' = books]_vars
    /\ [][\A w \in Procs :
            (workers[w].pc = "book_validate" /\ workers[w].op \in CreateOps /\ BookValidate(w))
            => /\ books' = books
               /\ ~RelatedExists(Head(workers[w].pending),
                                 workers[w].data[Head(workers[w].pending)])
                  => RejectedFor(w, workers[w].op, Head(workers[w].pending))
               /\ \A f \in DOMAIN workers[w].errors : RejectedFor(w, workers[w].op, f)]_vars
    /\ [](\A w \in Procs :
            workers[w].pc \in {"book_insert", "book_save", "book_save_insert"}
            => DOMAIN workers[w].errors = {})
    /\ [][\A b \in DOMAIN books' :
            (b \notin DOMAIN books \/ books'[b] # books[b])
            => /\ books'[b].author \in DOMAIN authors
               /\ books'[b].category \in DOMAIN categories]_vars
    /\ [](\A b \in DOMAIN books : ForeignKeysHold(books[b]))

\* Reached: a create was refused for its author while an Author, a Category
\* and a Book are stored.
C4_Witness ==
    /\ resp.op \in CreateOps /\ resp.status = 400
    /\ "author" \in DOMAIN resp.body.errors
    /\ resp.body.errors["author"] = "does_not_exist"
    /\ DOMAIN authors # {} /\ DOMAIN categories # {} /\ DOMAIN books # {}

\* C5: the DELETE statement of a Book destroy removes that row and nothing
\* else (the other Books, the Authors and the Categories stay as they were);
\* from then on, until a create stores the id again, a retrieval of the id by
\* a caller allowed to read returns 404, and no retrieval returns the row.
C5_DeletedBookNotFound ==
    /\ [][\A w \in Procs :
            (workers[w].pc = "book_delete" /\ BookDelete(w))
            => /\ DOMAIN books' = DOMAIN books \ {workers[w].id}
               /\ \A b \in DOMAIN books' : books'[b] = books[b]
               /\ authors' = authors /\ categories' = categories
               /\ resp'.status = 204]_vars
    /\ [][\A cred \in Creds, id \in deleted :
            /\ (resp'.op = "book_retrieve" /\ BookViewSetRetrieve(cred, id))
               => /\ resp'.status # 200
                  /\ (~Refused(cred, BookViewSetPermission) => resp'.status = 404)
            /\ (resp'.op = "book_detail_view" /\ BookDetailView(cred, id))
               => /\ resp'.status # 200
                  /\ (~Refused(cred, DefaultPermission) => resp'.status = 404)]_vars

(***************************************************************************)
(* Properties of the Book list                                             *)
(***************************************************************************)
Results == resp.body.results
ListAnswered == resp.op = "book_list" /\ resp.status = 200

\* C7: a list request with author__name (category__name) returns only books
\* whose author's (category's) name, as stored when the page is read, equals
\* the given value.
C7_FilterByName ==
    [][\A w \in Procs :
         (workers[w].pc = "book_list_page" /\ BookViewSetListPage(w))
         => \A i \in 1..Len(resp'.body.results) :
               LET book == books[resp'.body.results[i]]
                   params == workers[w].params
               IN /\ "author__name" \in DOMAIN params
                     => authors[book.author].name = params["author__name"]
                  /\ "category__name" \in DOMAIN params
                     => categories[book.category].name = params["category__name"]]_vars

\* C6 as claimed: a page holds at most min(requested page_size, 100) books for
\* every requested page_size, at most 10 when none is requested, and never
\* more than 100.
C6_PageAtMostRequestedSize ==
    ListAnswered =>
        /\ Len(Results) <= 100
        /\ "page_size" \notin DOMAIN resp.params => Len(Results) <= 10
        /\ ("page_size" \in DOMAIN resp.params /\ ParseInt(resp.params["page_size"]).ok)
           => Len(Results) <= Max(0, Min(ParseInt(resp.params["page_size"]).value, 100))

\* the page size the request asks for: min(page_size, 100) for a page_size
\* that is a positive integer, 10 otherwise
RequestedPageSize(params) ==
    IF /\ "page_size" \in DOMAIN params
       /\ ParseInt(params["page_size"]).ok
       /\ ParseInt(params["page_size"]).value >= 1
    THEN Min(ParseInt(params["page_size"]).value, 100)
    ELSE 10

\* C6 as amended: a page holds at most min(page_size, 100) books when
\* page_size is a positive integer, and at most 10 when page_size is absent,
\* zero, negative or not an integer; it never holds more than 100, and every
\* page but the last is full.
C6_PageSizeCapped ==
    ListAnswered =>
        /\ Len(Results) <= 100
        /\ Len(Results) <= RequestedPageSize(resp.params)
        /\ resp.body.next # 0 => Len(Results) = RequestedPageSize(resp.params)

\* Reached: page_size=200 was requested of more than 200 books and the page
\* holds 100 of them.
C6_Witness ==
    /\ ListAnswered
    /\ "page_size" \in DOMAIN resp.params
    /\ resp.params["page_size"] = <<"2","0","0">>
    /\ resp.body.count > 200
    /\ Len(Results) = 100

\* a search value that is one term: not empty, no separator in it
SingleTerm(text) ==
    text # <<>> /\ \A i \in 1..Len(text) : text[i] \notin Whitespace \cup {",", "\\0"}

\* term occurs in text, letter case ignored
CaseInsensitiveSubstring(text, term) ==
    \E off \in 0..(Len(text) - Len(term)) :
        \A k \in 1..Len(term) : LowerChar(text[off + k]) = LowerChar(term[k])

Matching(term) ==
    {id \in DOMAIN books : \/ CaseInsensitiveSubstring(books[id].title, term)
                           \/ CaseInsensitiveSubstring(books[id].description, term)}

\* the number of times id occurs on the pages cut from the rows qs
Occurrences(id, qs, pages, per, count) ==
    Cardinality({pi \in pages \X (1..per) :
                   /\ pi[2] <= Len(PageOf(qs, pi[1], per, count))
                   /\ PageOf(qs, pi[1], per, count)[pi[2]] = id})

\* C8: a list request with one search term finds exactly the books whose
\* title or description contains the term, letter case ignored: their number
\* is the count of the response, every page of the request holds only such
\* books and as many of them as fit, and in whichever order the store returns
\* the rows, the pages together hold each of them once and no other book.
C8_SearchThenPaginate ==
    (ListAnswered /\ "search" \in DOMAIN resp.params /\ SingleTerm(resp.params["search"]))
    => LET found == Matching(resp.params["search"])
           per == RequestedPageSize(resp.params)
           pages == 1..((Cardinality(found) + per - 1) \div per)
       IN /\ resp.body.count = Cardinality(found)
          /\ \A i \in 1..Len(Results) : Results[i] \in found
          /\ \A p \in pages :
                \A rs \in PageSelect(resp.params, p, per, resp.body.count) :
                   /\ \A i \in 1..Len(rs) : rs[i] \in found
                   /\ Len(rs) = Min(per, Cardinality(found) - (p - 1) * per)
          /\ \A qs \in BookViewSetFilterQueryset(resp.params) :
                \A id \in DOMAIN books :
                   Occurrences(id, qs, pages, per, resp.body.count)
                      = IF id \in found THEN 1 ELSE 0

\* Reached: a search answered a page holding a book that matches in its
\* description only, while another book matches in neither field and the
\* matching books fill more than one page.
C8_Witness ==
    /\ ListAnswered /\ "search" \in DOMAIN resp.params /\ SingleTerm(resp.params["search"])
    /\ \E i \in 1..Len(Results) :
          /\ ~CaseInsensitiveSubstring(books[Results[i]].title, resp.params["search"])
          /\ CaseInsensitiveSubstring(books[Results[i]].description, resp.params["search"])
    /\ DOMAIN books \ Matching(resp.params["search"]) # {}
    /\ resp.body.previous # 0

====
